---------------------------- MODULE Spec2Model ----------------------------
(***************************************************************************)
(* ProviderBridgeService: the permission-gated RPC bridge between the      *)
(* content script (untrusted) and the internal Ethereum provider.          *)
(*                                                                         *)
(* onMessageListener is an async function: it runs atomically between two  *)
(* awaits, and at every await control returns to the caller, so other      *)
(* handlers and grantPermission / denyOrRevokePermission calls may run     *)
(* before the continuation does.  Each request slot r carries the position *)
(* of its handler in pc[r].                                                *)
(*                                                                         *)
(* favIconUrl and title of a PermissionRequest are cosmetic and carried    *)
(* unchanged; a PermissionRequest is modelled by its url and state.        *)
(***************************************************************************)
EXTENDS Naturals, Sequences, FiniteSets

\* Number of inbound port messages in a run.
MaxReqs == 3

Reqs == 1..MaxReqs

\* port.sender.url values of the connected ports.
Origins == {"https://a.example", "https://b.example"}

\* event.id of the r-th inbound envelope: the caller numbers its envelopes.
EventId(r) == r

\* event.request.method values.
Methods == {"eth_requestAccounts", "personal_sign"}

\* event.request.params values.
ParamsSet == {<<"0x">>}

\* PermissionRequest["state"].
PermissionStates == {"request", "allow", "deny"}

\* Absent key of #allowedPages / #pendingPermissionsRequests.
None == "none"

\* Value handed to a slot that names no request.
NoReq == 0

\* new EIP1193Error(EIP1193_ERROR.userRejectedRequest)
UserRejectedRequest == [error |-> "userRejectedRequest"]

\* new EIP1193Error(EIP1193_ERROR.unauthorized)
Unauthorized == [error |-> "unauthorized"]

\* The message slot before its message arrives.
NoMsg == [url |-> None, id |-> None, method |-> None, params |-> <<>>]

VARIABLES
    allowedPages,                \* #allowedPages: url -> state of the stored PermissionRequest, or None
    pendingPermissionsRequests,  \* #pendingPermissionsRequests: url -> the request whose promise the stored resolve settles, or NoReq
    msg,                         \* r -> the inbound envelope and the url of its port
    pc,                          \* r -> position of the handler of message r
    response,                    \* r -> the handler's local `response` object
    permitted,                   \* r -> value of the handler's latest `await this.checkPermission(url)`
    posted,                      \* r -> envelopes the handler passed to port.postMessage
    providerCalls,               \* r -> calls the handler made to routeSafeRPCRequest
    emitted,                     \* r -> requestPermission events the handler emitted
    launched,                    \* r -> number of showDappConnectWindow calls of the handler
    permissionRequests,          \* state.dappPermission.permissionRequests: entries [key, value] in insertion order
    selection                    \* the results the selectors returned for it: none yet, or one

\* The redux state the view layer selects from, and what it selected.
viewVars == <<permissionRequests, selection>>

vars == <<allowedPages, pendingPermissionsRequests, msg, pc, response, permitted,
          posted, providerCalls, emitted, launched, viewVars>>

\* The selectors have not run.
NotSelected == <<>>

\* Variant of InitialResponse: the id is not copied from the inbound envelope.
InitialResponseWithoutId(event) == [id |-> 0, result |-> <<>>]

\* The `response` local of onMessageListener as first built.
InitialResponse(event) == [id |-> event.id, result |-> <<>>]

\* checkPermission: true iff a record is stored for url with state "allow".
checkPermission(url) == allowedPages[url] = "allow"

\* Variant of routeContentScriptRPCRequest: eth_requestAccounts is not rewritten.
routeContentScriptRPCRequestUnchanged(method, params) ==
    [method |-> method, params |-> params]

\* routeContentScriptRPCRequest: the call made to routeSafeRPCRequest.
routeContentScriptRPCRequest(method, params) ==
    IF method = "eth_requestAccounts"
    THEN [method |-> "eth_accounts", params |-> params]
    ELSE [method |-> method, params |-> params]

\* The value routeSafeRPCRequest returns for a call that succeeds.
routeSafeRPCRequest(method, params) == [rpc |-> method, params |-> params]

\* The service as constructed.
ServiceConstructed ==
    /\ allowedPages = [o \in Origins |-> None]
    /\ pendingPermissionsRequests = [o \in Origins |-> NoReq]
    /\ msg = [r \in Reqs |-> NoMsg]
    /\ pc = [r \in Reqs |-> "idle"]
    /\ response = [r \in Reqs |-> [id |-> None, result |-> <<>>]]
    /\ permitted = [r \in Reqs |-> FALSE]
    /\ posted = [r \in Reqs |-> <<>>]
    /\ providerCalls = [r \in Reqs |-> <<>>]
    /\ emitted = [r \in Reqs |-> <<>>]
    /\ launched = [r \in Reqs |-> 0]

Init ==
    /\ ServiceConstructed
    /\ permissionRequests = <<>>
    /\ selection = NotSelected

\* port.onMessage fires: onMessageListener runs up to its first await; the
\* body of checkPermission has run and its promise is pending a continuation.
OnMessage(r, url, method, params) ==
    /\ pc[r] = "idle"
    /\ \A q \in Reqs : q < r => pc[q] # "idle"
    /\ msg' = [msg EXCEPT ![r] = [url |-> url, id |-> EventId(r), method |-> method, params |-> params]]
    /\ response' = [response EXCEPT ![r] = InitialResponse(msg'[r])]
    /\ permitted' = [permitted EXCEPT ![r] = checkPermission(url)]
    /\ pc' = [pc EXCEPT ![r] = "awaitCheck"]
    /\ UNCHANGED <<allowedPages, pendingPermissionsRequests, posted, providerCalls,
                   emitted, launched>>
    /\ UNCHANGED viewVars

\* Branch 1: the origin was permitted; the provider is called.
Dispatch(r) ==
    /\ pc[r] = "awaitCheck"
    /\ permitted[r]
    /\ providerCalls' = [providerCalls EXCEPT ![r] =
           Append(@, routeContentScriptRPCRequest(msg[r].method, msg[r].params))]
    /\ pc' = [pc EXCEPT ![r] = "awaitProvider"]
    /\ UNCHANGED <<allowedPages, pendingPermissionsRequests, msg, response, permitted,
                   posted, emitted, launched>>
    /\ UNCHANGED viewVars

\* Variant of StartConsent: the method is not compared with eth_requestAccounts.
StartConsentAnyMethod(r) ==
    /\ pc[r] = "awaitCheck"
    /\ ~permitted[r]
    /\ emitted' = [emitted EXCEPT ![r] = Append(@, [url |-> msg[r].url, state |-> "request"])]
    /\ launched' = [launched EXCEPT ![r] = @ + 1]
    /\ pc' = [pc EXCEPT ![r] = "awaitWindow"]
    /\ UNCHANGED <<allowedPages, pendingPermissionsRequests, msg, response, permitted,
                   posted, providerCalls>>
    /\ UNCHANGED viewVars

\* Branch 2: eth_requestAccounts of an origin that was not permitted;
\* requestPermission runs up to its await of showDappConnectWindow.
StartConsent(r) ==
    /\ pc[r] = "awaitCheck"
    /\ ~permitted[r]
    /\ msg[r].method = "eth_requestAccounts"
    /\ emitted' = [emitted EXCEPT ![r] = Append(@, [url |-> msg[r].url, state |-> "request"])]
    /\ launched' = [launched EXCEPT ![r] = @ + 1]
    /\ pc' = [pc EXCEPT ![r] = "awaitWindow"]
    /\ UNCHANGED <<allowedPages, pendingPermissionsRequests, msg, response, permitted,
                   posted, providerCalls>>
    /\ UNCHANGED viewVars

\* Branch 3: any other method of an origin that was not permitted.
RejectUnauthorized(r) ==
    /\ pc[r] = "awaitCheck"
    /\ ~permitted[r]
    /\ msg[r].method # "eth_requestAccounts"
    /\ response' = [response EXCEPT ![r].result = Unauthorized]
    /\ posted' = [posted EXCEPT ![r] = Append(@, response'[r])]
    /\ pc' = [pc EXCEPT ![r] = "done"]
    /\ UNCHANGED <<allowedPages, pendingPermissionsRequests, msg, permitted,
                   providerCalls, emitted, launched>>
    /\ UNCHANGED viewVars

\* Variant of RegisterPending: the event is emitted once more after the window opened.
RegisterPendingEmitsAgain(r) ==
    /\ pc[r] = "awaitWindow"
    /\ pendingPermissionsRequests' = [pendingPermissionsRequests EXCEPT ![msg[r].url] = r]
    /\ emitted' = [emitted EXCEPT ![r] = Append(@, [url |-> msg[r].url, state |-> "request"])]
    /\ pc' = [pc EXCEPT ![r] = "suspended"]
    /\ UNCHANGED <<allowedPages, msg, response, permitted, posted, providerCalls, launched>>
    /\ UNCHANGED viewVars

\* Variant of RegisterPending: the new promise is resolved as soon as it is stored.
RegisterPendingResolved(r) ==
    /\ pc[r] = "awaitWindow"
    /\ pendingPermissionsRequests' = [pendingPermissionsRequests EXCEPT ![msg[r].url] = r]
    /\ pc' = [pc EXCEPT ![r] = "resumed"]
    /\ UNCHANGED <<allowedPages, msg, response, permitted, posted, providerCalls,
                   emitted, launched>>
    /\ UNCHANGED viewVars

\* showDappConnectWindow has returned: requestPermission stores the resolve
\* of a new promise under the url; the handler is suspended on that promise.
RegisterPending(r) ==
    /\ pc[r] = "awaitWindow"
    /\ pendingPermissionsRequests' = [pendingPermissionsRequests EXCEPT ![msg[r].url] = r]
    /\ pc' = [pc EXCEPT ![r] = "suspended"]
    /\ UNCHANGED <<allowedPages, msg, response, permitted, posted, providerCalls,
                   emitted, launched>>
    /\ UNCHANGED viewVars

\* Variant of grantPermission: every handler suspended for the url is resumed,
\* not only the one whose resolve is stored.
grantPermissionResumesAll(url, state) ==
    /\ IF pendingPermissionsRequests[url] # NoReq
       THEN /\ allowedPages' = [allowedPages EXCEPT ![url] = state]
            /\ pc' = [r \in Reqs |->
                         IF pc[r] = "suspended" /\ msg[r].url = url THEN "resumed" ELSE pc[r]]
            /\ pendingPermissionsRequests' = [pendingPermissionsRequests EXCEPT ![url] = NoReq]
       ELSE UNCHANGED <<allowedPages, pc, pendingPermissionsRequests>>
    /\ UNCHANGED <<msg, response, permitted, posted, providerCalls, emitted, launched>>
    /\ UNCHANGED viewVars

\* Variant of grantPermission: the stored resolve is not deleted.
grantPermissionKeepsEntry(url, state) ==
    /\ IF pendingPermissionsRequests[url] # NoReq
       THEN /\ allowedPages' = [allowedPages EXCEPT ![url] = state]
            /\ pc' = [pc EXCEPT ![pendingPermissionsRequests[url]] =
                         IF @ = "suspended" THEN "resumed" ELSE @]
            /\ UNCHANGED pendingPermissionsRequests
       ELSE UNCHANGED <<allowedPages, pc, pendingPermissionsRequests>>
    /\ UNCHANGED <<msg, response, permitted, posted, providerCalls, emitted, launched>>
    /\ UNCHANGED viewVars

\* grantPermission(permission): acts only when a resolve is stored for the url.
grantPermission(url, state) ==
    /\ IF pendingPermissionsRequests[url] # NoReq
       THEN /\ allowedPages' = [allowedPages EXCEPT ![url] = state]
            /\ pc' = [pc EXCEPT ![pendingPermissionsRequests[url]] =
                         IF @ = "suspended" THEN "resumed" ELSE @]
            /\ pendingPermissionsRequests' = [pendingPermissionsRequests EXCEPT ![url] = NoReq]
       ELSE UNCHANGED <<allowedPages, pc, pendingPermissionsRequests>>
    /\ UNCHANGED <<msg, response, permitted, posted, providerCalls, emitted, launched>>
    /\ UNCHANGED viewVars

\* Variant of denyOrRevokePermission: the stored resolve is not deleted.
denyOrRevokePermissionKeepsEntry(url) ==
    /\ IF pendingPermissionsRequests[url] # NoReq
       THEN /\ allowedPages' = [allowedPages EXCEPT ![url] = None]
            /\ pc' = [pc EXCEPT ![pendingPermissionsRequests[url]] =
                         IF @ = "suspended" THEN "resumed" ELSE @]
            /\ UNCHANGED pendingPermissionsRequests
       ELSE UNCHANGED <<allowedPages, pc, pendingPermissionsRequests>>
    /\ UNCHANGED <<msg, response, permitted, posted, providerCalls, emitted, launched>>
    /\ UNCHANGED viewVars

\* Variant of denyOrRevokePermission: the records of all origins are removed.
denyOrRevokePermissionClearsAll(url) ==
    /\ IF pendingPermissionsRequests[url] # NoReq
       THEN /\ allowedPages' = [o \in Origins |-> None]
            /\ pc' = [pc EXCEPT ![pendingPermissionsRequests[url]] =
                         IF @ = "suspended" THEN "resumed" ELSE @]
            /\ pendingPermissionsRequests' = [pendingPermissionsRequests EXCEPT ![url] = NoReq]
       ELSE UNCHANGED <<allowedPages, pc, pendingPermissionsRequests>>
    /\ UNCHANGED <<msg, response, permitted, posted, providerCalls, emitted, launched>>
    /\ UNCHANGED viewVars

\* denyOrRevokePermission(permission): acts only when a resolve is stored for the url.
denyOrRevokePermission(url) ==
    /\ IF pendingPermissionsRequests[url] # NoReq
       THEN /\ allowedPages' = [allowedPages EXCEPT ![url] = None]
            /\ pc' = [pc EXCEPT ![pendingPermissionsRequests[url]] =
                         IF @ = "suspended" THEN "resumed" ELSE @]
            /\ pendingPermissionsRequests' = [pendingPermissionsRequests EXCEPT ![url] = NoReq]
       ELSE UNCHANGED <<allowedPages, pc, pendingPermissionsRequests>>
    /\ UNCHANGED <<msg, response, permitted, posted, providerCalls, emitted, launched>>
    /\ UNCHANGED viewVars

\* The promise was settled: the handler continues and re-checks the permission.
Resume(r) ==
    /\ pc[r] = "resumed"
    /\ permitted' = [permitted EXCEPT ![r] = checkPermission(msg[r].url)]
    /\ pc' = [pc EXCEPT ![r] = "awaitRecheck"]
    /\ UNCHANGED <<allowedPages, pendingPermissionsRequests, msg, response, posted,
                   providerCalls, emitted, launched>>
    /\ UNCHANGED viewVars

\* Variant of ReplyAfterConsent: the unauthorized error is used for a refusal.
ReplyAfterConsentUnauthorized(r) ==
    /\ pc[r] = "awaitRecheck"
    /\ response' = [response EXCEPT ![r].result =
                       IF ~permitted[r] THEN Unauthorized ELSE @]
    /\ posted' = [posted EXCEPT ![r] = Append(@, response'[r])]
    /\ pc' = [pc EXCEPT ![r] = "done"]
    /\ UNCHANGED <<allowedPages, pendingPermissionsRequests, msg, permitted,
                   providerCalls, emitted, launched>>
    /\ UNCHANGED viewVars

\* After the re-check: userRejectedRequest when not permitted, else the
\* result the response was built with; then port.postMessage.
ReplyAfterConsent(r) ==
    /\ pc[r] = "awaitRecheck"
    /\ response' = [response EXCEPT ![r].result =
                       IF ~permitted[r] THEN UserRejectedRequest ELSE @]
    /\ posted' = [posted EXCEPT ![r] = Append(@, response'[r])]
    /\ pc' = [pc EXCEPT ![r] = "done"]
    /\ UNCHANGED <<allowedPages, pendingPermissionsRequests, msg, permitted,
                   providerCalls, emitted, launched>>
    /\ UNCHANGED viewVars

\* routeSafeRPCRequest returned: its value is the result; port.postMessage.
ProviderReturns(r) ==
    /\ pc[r] = "awaitProvider"
    /\ LET call == providerCalls[r][Len(providerCalls[r])]
       IN response' = [response EXCEPT ![r].result =
                          routeSafeRPCRequest(call.method, call.params)]
    /\ posted' = [posted EXCEPT ![r] = Append(@, response'[r])]
    /\ pc' = [pc EXCEPT ![r] = "done"]
    /\ UNCHANGED <<allowedPages, pendingPermissionsRequests, msg, permitted,
                   providerCalls, emitted, launched>>
    /\ UNCHANGED viewVars

\* routeSafeRPCRequest rejected: the await throws out of onMessageListener,
\* which has no handler for it; port.postMessage is not reached.
ProviderThrows(r) ==
    /\ pc[r] = "awaitProvider"
    /\ pc' = [pc EXCEPT ![r] = "threw"]
    /\ UNCHANGED <<allowedPages, pendingPermissionsRequests, msg, response, permitted,
                   posted, providerCalls, emitted, launched>>
    /\ UNCHANGED viewVars

Next ==
    \/ \E r \in Reqs, url \in Origins, method \in Methods, params \in ParamsSet :
           OnMessage(r, url, method, params)
    \/ \E r \in Reqs : Dispatch(r)
    \/ \E r \in Reqs : StartConsent(r)
    \/ \E r \in Reqs : RejectUnauthorized(r)
    \/ \E r \in Reqs : RegisterPending(r)
    \/ \E url \in Origins, state \in PermissionStates : grantPermission(url, state)
    \/ \E url \in Origins : denyOrRevokePermission(url)
    \/ \E r \in Reqs : Resume(r)
    \/ \E r \in Reqs : ReplyAfterConsent(r)
    \/ \E r \in Reqs : ProviderReturns(r)
    \/ \E r \in Reqs : ProviderThrows(r)

Spec == Init /\ [][Next]_vars

-----------------------------------------------------------------------------
(* The view-layer selectors over state.dappPermission (dappPermissionSelectors.ts). *)
(* permissionRequests is an object keyed by url; urls are not integer-like   *)
(* keys, so Object.values lists the values in insertion order.  The object   *)
(* is modelled as the sequence of its [key, value] entries in that order.    *)

\* Largest number of keys of permissionRequests.
MaxPermissionRequests == 2

\* Keys of permissionRequests.
PageUrls == Origins \cup {"https://c.example"}

\* The value of an absent array element: a request with no url and no state.
Undefined == [url |-> None, state |-> None]

\* Sequences over S of length up to n.
SeqsUpTo(S, n) == UNION {[1..k -> S] : k \in 0..n}

\* The objects permissionRequests may be: entries with distinct keys, each
\* value a PermissionRequest stored under its own url.
PermissionRequestObjects ==
    {entries \in SeqsUpTo([key : PageUrls, value : [url : PageUrls, state : PermissionStates]],
                          MaxPermissionRequests) :
        /\ \A i \in DOMAIN entries : entries[i].value.url = entries[i].key
        /\ \A i, j \in DOMAIN entries : entries[i].key = entries[j].key => i = j}

\* Array.prototype.filter with the predicate p.state === "request".
RECURSIVE filterRequestState(_)
filterRequestState(requests) ==
    IF requests = <<>> THEN <<>>
    ELSE IF Head(requests).state = "request"
         THEN <<Head(requests)>> \o filterRequestState(Tail(requests))
         ELSE filterRequestState(Tail(requests))

\* selectPermissionRequests: Object.values(slice.permissionRequests).
selectPermissionRequests(slice) == [i \in DOMAIN slice |-> slice[i].value]

\* selectPendingPermissionRequests: the requests whose state is "request".
selectPendingPermissionRequests(slice) ==
    filterRequestState(selectPermissionRequests(slice))

\* Variant of selectCurrentPendingPermission: the first of all requests is taken.
selectCurrentPermissionOfAll(slice) ==
    IF selectPermissionRequests(slice) = <<>> THEN Undefined
    ELSE selectPermissionRequests(slice)[1]

\* selectCurrentPendingPermission: permissionRequests[0] of the pending ones.
selectCurrentPendingPermission(slice) ==
    IF selectPendingPermissionRequests(slice) = <<>> THEN Undefined
    ELSE selectPendingPermissionRequests(slice)[1]

SelectorInit ==
    /\ ServiceConstructed
    /\ permissionRequests \in PermissionRequestObjects
    /\ selection = NotSelected

\* The view reads the state through the three selectors.
Select ==
    /\ selection = NotSelected
    /\ selection' = <<[requests |-> selectPermissionRequests(permissionRequests),
                       pending |-> selectPendingPermissionRequests(permissionRequests),
                       current |-> selectCurrentPendingPermission(permissionRequests)]>>
    /\ UNCHANGED <<allowedPages, pendingPermissionsRequests, msg, pc, response, permitted,
                   posted, providerCalls, emitted, launched, permissionRequests>>

SelectorNext == Select

SelectorSpec == SelectorInit /\ [][SelectorNext]_vars

TypeOK ==
    /\ allowedPages \in [Origins -> PermissionStates \cup {None}]
    /\ pendingPermissionsRequests \in [Origins -> Reqs \cup {NoReq}]
    /\ pc \in [Reqs -> {"idle", "awaitCheck", "awaitProvider", "awaitWindow", "suspended",
                        "resumed", "awaitRecheck", "done", "threw"}]
    /\ permitted \in [Reqs -> BOOLEAN]
    /\ launched \in [Reqs -> Nat]

-----------------------------------------------------------------------------
(* Properties *)

Connect == "eth_requestAccounts"

\* The envelope that answers message r with the given result.
Envelope(r, result) == [id |-> msg[r].id, result |-> result]

\* The handler of r took the consent branch: it is past the first check of a
\* connection request and did not dispatch.
InConsentFlow(r) ==
    /\ msg[r].method = Connect
    /\ pc[r] \notin {"idle", "awaitCheck", "awaitProvider", "threw"}
    /\ providerCalls[r] = <<>>

\* C1: a call is forwarded to the internal provider for an origin only if the
\* permission store holds an "allow" record for that origin at the moment of
\* forwarding, the gap between the awaited checkPermission and the dispatch
\* included.
C1_ForwardOnlyWhileAllowed ==
    [][\A r \in Reqs :
          Len(providerCalls'[r]) > Len(providerCalls[r])
              => allowedPages[msg[r].url] = "allow"]_vars

\* C2: a message with a method other than eth_requestAccounts, of an origin
\* with no stored record, is answered Unauthorized by the handler's first
\* continuation: no suspension, no provider call, no requestPermission event,
\* no window, and the permission store and pending registry stay as they were.
C2_UnauthorizedFailsClosed ==
    [][\A r \in Reqs :
          /\ (/\ pc[r] = "idle"
              /\ pc'[r] # "idle"
              /\ msg'[r].method # Connect
              /\ allowedPages[msg'[r].url] = None)
                 => /\ pc'[r] = "awaitCheck"
                    /\ ~permitted'[r]
                    /\ posted'[r] = <<>>
                    /\ UNCHANGED <<allowedPages, pendingPermissionsRequests>>
          /\ (/\ pc[r] = "awaitCheck"
              /\ pc'[r] # "awaitCheck"
              /\ msg[r].method # Connect
              /\ ~permitted[r])
                 => /\ pc'[r] = "done"
                    /\ posted'[r] = <<Envelope(r, Unauthorized)>>
                    /\ providerCalls'[r] = <<>>
                    /\ emitted'[r] = <<>>
                    /\ launched'[r] = 0
                    /\ UNCHANGED <<allowedPages, pendingPermissionsRequests>>]_vars

\* C2 witness: an origin without a record got Unauthorized for personal_sign.
C2_Witness ==
    \E r \in Reqs :
        /\ pc[r] = "done"
        /\ msg[r].method = "personal_sign"
        /\ allowedPages[msg[r].url] = None
        /\ posted[r] = <<Envelope(r, Unauthorized)>>

\* C3: grantPermission with a record of state "allow" stores the record in
\* every state, with or without a pending entry: after it returns,
\* checkPermission of the origin is true.
C3_GrantAlwaysStores ==
    \A url \in Origins :
        ~ENABLED (grantPermission(url, "allow") /\ allowedPages'[url] # "allow")

\* C4: denyOrRevokePermission removes the stored record in every state, with
\* or without a pending entry: after it returns, checkPermission of the
\* origin is false.
C4_RevokeAlwaysRemoves ==
    \A url \in Origins :
        ~ENABLED (denyOrRevokePermission(url) /\ allowedPages'[url] = "allow")

\* C5: a suspended connection request that is resumed with its origin allowed
\* answers with the provider's result for eth_accounts.
C5_GrantedConnectReturnsAccounts ==
    \A r \in Reqs :
        (InConsentFlow(r) /\ pc[r] = "done" /\ permitted[r])
            => posted[r] = <<Envelope(r, routeSafeRPCRequest("eth_accounts", msg[r].params))>>

\* C6: a suspended connection request whose re-check is false answers
\* userRejectedRequest, and the provider is not called for it.
C6_RefusedConnectIsUserRejected ==
    \A r \in Reqs :
        (emitted[r] # <<>> /\ pc[r] \in {"awaitRecheck", "done"} /\ ~permitted[r])
            => /\ providerCalls[r] = <<>>
               /\ pc[r] = "done" => posted[r] = <<Envelope(r, UserRejectedRequest)>>

\* C6 witness: a connection request was suspended, the user refused, and the
\* handler answered.
C6_Witness ==
    \E r \in Reqs :
        /\ emitted[r] # <<>>
        /\ pc[r] = "done"
        /\ ~permitted[r]
        /\ posted[r] # <<>>

\* C7: every posted envelope carries the id of the inbound envelope whose
\* handler posted it, and a handler posts at most one envelope.
C7_ResponseCorrelation ==
    \A r \in Reqs :
        /\ Len(posted[r]) <= 1
        /\ \A i \in DOMAIN posted[r] : posted[r][i].id = EventId(r)

\* C7 witness: answers were posted on the dispatch branch, the consent branch
\* and the unauthorized branch, by handlers that overlapped.
C7_Witness ==
    /\ \E r \in Reqs : providerCalls[r] # <<>> /\ posted[r] # <<>>
    /\ \E r \in Reqs : emitted[r] # <<>> /\ posted[r] # <<>>
    /\ \E r \in Reqs : posted[r] = <<Envelope(r, Unauthorized)>>

\* C8: a handler whose provider call failed still posts an envelope with the
\* request's id; no handler ends without a response.
C8_FailureIsAnswered ==
    \A r \in Reqs :
        pc[r] \in {"done", "threw"}
            => Len(posted[r]) = 1 /\ posted[r][1].id = msg[r].id

\* C9: handling a connection request of an origin that is not allowed emits
\* one requestPermission event {url, state "request"}, opens the consent
\* window once, and registers the pending entry of the origin for it.
C9_ConsentFlowStartsOnce ==
    [][\A r \in Reqs :
          /\ Len(emitted'[r]) <= 1
          /\ launched'[r] <= 1
          /\ (/\ pc[r] = "awaitCheck"
              /\ pc'[r] # "awaitCheck"
              /\ msg[r].method = Connect
              /\ ~permitted[r])
                 => /\ pc'[r] = "awaitWindow"
                    /\ emitted'[r] = <<[url |-> msg[r].url, state |-> "request"]>>
                    /\ launched'[r] = 1
          /\ (pc[r] = "awaitWindow" /\ pc'[r] # "awaitWindow")
                 => /\ pc'[r] = "suspended"
                    /\ pendingPermissionsRequests'[msg[r].url] = r
                    /\ emitted'[r] = <<[url |-> msg[r].url, state |-> "request"]>>
                    /\ launched'[r] = 1]_vars

\* C9 witness: a connection request is suspended with its entry registered.
C9_Witness ==
    \E r \in Reqs :
        /\ pc[r] = "suspended"
        /\ pendingPermissionsRequests[msg[r].url] = r
        /\ Len(emitted[r]) = 1
        /\ launched[r] = 1

\* C10: a suspended connection request leaves its suspension only in a step
\* that is a grantPermission or denyOrRevokePermission call for its origin,
\* and nothing is posted for it before; there is no timeout transition.
C10_NoResponseBeforeDecision ==
    [][\A r \in Reqs :
          /\ pc[r] \in {"awaitWindow", "suspended"} => posted'[r] = <<>>
          /\ (pc'[r] = "resumed" /\ pc[r] # "resumed") => pc[r] = "suspended"
          /\ (pc[r] = "suspended" /\ pc'[r] # "suspended")
                 => \/ \E state \in PermissionStates : grantPermission(msg[r].url, state)
                    \/ denyOrRevokePermission(msg[r].url)]_vars

\* C10 witness: a request that was suspended has been answered after a decision.
C10_Witness ==
    \E r \in Reqs : InConsentFlow(r) /\ pc[r] = "done" /\ posted[r] # <<>>

\* The handler of r is suspended on a promise whose resolve is no longer stored.
Orphaned(r) ==
    pc[r] = "suspended" /\ pendingPermissionsRequests[msg[r].url] # r

\* A grantPermission or denyOrRevokePermission call for url.
Decision(url) ==
    \/ \E state \in PermissionStates : grantPermission(url, state)
    \/ denyOrRevokePermission(url)

\* C11: a connection request that registers for an origin while another
\* request of the origin is suspended replaces the entry; the replaced
\* request stays suspended and unanswered under every later grant or deny,
\* and a decision for the origin resumes the request that holds the entry.
C11_SingleSlotOverwrite ==
    [][\A r \in Reqs :
          /\ (pc[r] = "awaitWindow" /\ pc'[r] = "suspended")
                 => pendingPermissionsRequests'[msg[r].url] = r
          /\ Orphaned(r)
                 => /\ pc'[r] = "suspended"
                    /\ pendingPermissionsRequests'[msg[r].url] # r
                    /\ posted'[r] = <<>>
          /\ (/\ pc[r] = "suspended"
              /\ pendingPermissionsRequests[msg[r].url] = r
              /\ Decision(msg[r].url))
                 => pc'[r] = "resumed"]_vars

\* C11 witness: the second request of an origin was resumed and answered
\* while the first, whose entry it replaced, is still suspended.
C11_Witness ==
    \E r, q \in Reqs :
        /\ r < q
        /\ msg[r].url = msg[q].url
        /\ Orphaned(r)
        /\ InConsentFlow(q)
        /\ pc[q] = "done"
        /\ pendingPermissionsRequests[msg[r].url] = NoReq

\* C12: a denyOrRevokePermission call repeated right after itself, and any
\* grantPermission or denyOrRevokePermission call for an origin made right
\* after a call that settled the origin's pending entry, changes nothing: not
\* the permission store, not the registry, no handler's position, no response.
\* (A first call that changed nothing leaves the state it started from, where
\* the same call again has the one outcome it had.)
C12_SecondDecisionIsNoOp ==
    \A url \in Origins :
        /\ ~ENABLED (/\ Decision(url)
                     /\ vars' # vars
                     /\ (ENABLED (Decision(url) /\ vars' # vars))')
        /\ ~(/\ ENABLED (denyOrRevokePermission(url) /\ vars' = vars)
             /\ ENABLED (denyOrRevokePermission(url) /\ vars' # vars))

\* C12 witness: a decision consumed the entry of an origin and resumed its handler.
C12_Witness ==
    \E r \in Reqs :
        /\ pc[r] = "resumed"
        /\ pendingPermissionsRequests[msg[r].url] = NoReq

\* C13: a dispatched request calls the provider once, with eth_accounts in
\* place of eth_requestAccounts, every other method name as received, and
\* the params as received.
C13_DispatchRewrite ==
    \A r \in Reqs :
        /\ Len(providerCalls[r]) <= 1
        /\ pc[r] \in {"awaitProvider", "threw"} => Len(providerCalls[r]) = 1
        /\ \A i \in DOMAIN providerCalls[r] :
              /\ providerCalls[r][i].params = msg[r].params
              /\ msg[r].method = Connect => providerCalls[r][i].method = "eth_accounts"
              /\ msg[r].method # Connect => providerCalls[r][i].method = msg[r].method

\* C13 witness: eth_requestAccounts and personal_sign of allowed origins were dispatched.
C13_Witness ==
    /\ \E r \in Reqs : msg[r].method = Connect /\ providerCalls[r] # <<>>
    /\ \E r \in Reqs : msg[r].method = "personal_sign" /\ providerCalls[r] # <<>>

\* C14: once the requestPermission event of a connection request is out, and
\* until a decision, a pending entry is registered for its origin, so that a
\* grant or deny of the consent surface finds it.
C14_RegisteredBeforeNotified ==
    \A r \in Reqs :
        (emitted[r] # <<>> /\ pc[r] = "awaitWindow")
            => pendingPermissionsRequests[msg[r].url] # NoReq

\* A step taken for url: a step of the handler of a message of url, or a
\* grantPermission / denyOrRevokePermission call for url.
StepOf(url) ==
    \/ Decision(url)
    \/ \E r \in Reqs :
          /\ pc'[r] # pc[r]
          /\ msg'[r].url = url
          /\ \/ \E method \in Methods, params \in ParamsSet : OnMessage(r, url, method, params)
             \/ Dispatch(r)
             \/ StartConsent(r)
             \/ RejectUnauthorized(r)
             \/ RegisterPending(r)
             \/ Resume(r)
             \/ ReplyAfterConsent(r)
             \/ ProviderReturns(r)
             \/ ProviderThrows(r)

\* What the service holds for url and for the messages of url is unchanged.
OriginUntouched(url) ==
    /\ allowedPages'[url] = allowedPages[url]
    /\ pendingPermissionsRequests'[url] = pendingPermissionsRequests[url]
    /\ \A r \in Reqs :
          msg[r].url = url
              => /\ msg'[r] = msg[r]
                 /\ pc'[r] = pc[r]
                 /\ permitted'[r] = permitted[r]
                 /\ posted'[r] = posted[r]

\* C15: a step taken for origin a (a handler step of a message of a, a
\* grantPermission or denyOrRevokePermission call for a) leaves the record,
\* the pending entry and the handlers of every other origin b as they were.
C15_OriginIndependence ==
    [][\A a, b \in Origins : (a # b /\ StepOf(a)) => OriginUntouched(b)]_vars

\* C15 witness: requests of two origins were suspended together; one origin
\* was decided and answered, the other is still suspended with its entry.
C15_Witness ==
    \E r, q \in Reqs :
        /\ msg[r].url \in Origins
        /\ msg[q].url \in Origins
        /\ msg[r].url # msg[q].url
        /\ InConsentFlow(r)
        /\ pc[r] = "done"
        /\ pc[q] = "suspended"
        /\ pendingPermissionsRequests[msg[q].url] = q

\* C16: no origin has both an "allow" record in the permission store and an
\* entry in the pending registry.
C16_AllowedExcludesPending ==
    \A url \in Origins :
        ~(checkPermission(url) /\ pendingPermissionsRequests[url] # NoReq)

\* C17: every record in the permission store has state "allow", whatever
\* record grantPermission was called with.
C17_StoredRecordsAreAllowed ==
    \A url \in Origins : allowedPages[url] \in {None, "allow"}

\* C18: every entry of the pending registry is the resolve of a handler of
\* that origin that is suspended and has posted nothing; a grant or deny that
\* finds the entry resumes that handler, no other, and removes the entry in
\* the same step.
C18_NoStaleEntries ==
    [][\A url \in Origins :
          /\ pendingPermissionsRequests'[url] # NoReq
                 => /\ pc'[pendingPermissionsRequests'[url]] = "suspended"
                    /\ msg'[pendingPermissionsRequests'[url]].url = url
                    /\ posted'[pendingPermissionsRequests'[url]] = <<>>
          /\ (pendingPermissionsRequests[url] # NoReq /\ Decision(url))
                 => /\ pendingPermissionsRequests'[url] = NoReq
                    /\ \A r \in Reqs :
                          pc'[r] = IF r = pendingPermissionsRequests[url]
                                   THEN "resumed" ELSE pc[r]]_vars

\* C18 witness: a decision found an entry, resumed its handler and removed it.
C18_Witness ==
    \E r \in Reqs :
        /\ pc[r] \in {"resumed", "awaitRecheck", "done"}
        /\ InConsentFlow(r)
        /\ pendingPermissionsRequests[msg[r].url] = NoReq

\* Indices of the entries of permissionRequests whose value has state "request".
RequestIndices ==
    {i \in DOMAIN permissionRequests : permissionRequests[i].value.state = "request"}

\* C19: selectPendingPermissionRequests returns exactly the requests of the
\* map whose state is "request", in the map's value order;
\* selectCurrentPendingPermission returns the first of them, or undefined
\* when there is none; neither returns a request of state "allow" or "deny".
C19_PendingSelection ==
    selection # NotSelected =>
        LET pending == selection[1].pending
            current == selection[1].current
        IN /\ Len(pending) = Cardinality(RequestIndices)
           /\ \A k \in DOMAIN pending :
                 /\ pending[k].state \notin {"allow", "deny"}
                 /\ \E i \in RequestIndices :
                       /\ permissionRequests[i].value = pending[k]
                       /\ Cardinality({j \in RequestIndices : j < i}) = k - 1
           /\ RequestIndices = {} => current = Undefined
           /\ RequestIndices # {} =>
                 /\ current # Undefined
                 /\ current.state = "request"
                 /\ \E i \in RequestIndices :
                       /\ permissionRequests[i].value = current
                       /\ \A j \in RequestIndices : i <= j

\* C19 witness: the selectors ran on a map whose first request is not
\* pending and whose second is; the second was selected.
C19_Witness ==
    /\ selection # NotSelected
    /\ Len(permissionRequests) = 2
    /\ permissionRequests[1].value.state = "allow"
    /\ permissionRequests[2].value.state = "request"
    /\ selection[1].pending = <<permissionRequests[2].value>>
    /\ selection[1].current = permissionRequests[2].value

=============================================================================
